---- MODULE Spec2Model ----
(***************************************************************************)
(* Karpathy policy-gradient learner (src/Karpathy.py): KPLearner's forward *)
(* and backward steps, trajectory collection and the batch training loop   *)
(* of learn, with the KeyboardInterrupt handled in main.                   *)
(*                                                                         *)
(* Numbers.  numpy's doubles are modelled in fixed point: a real r is the  *)
(* integer r * Scale, truncated toward zero, and NaN is a value of its own *)
(* that every arithmetic operation propagates, as IEEE-754 does.           *)
(* Observations and rewards are integers (not scaled).  Squares of         *)
(* gradients (the RMSProp caches) are kept at Scale^2.                     *)
(***************************************************************************)
EXTENDS Integers, Sequences, FiniteSets, TLC

\* ------------------------------------------------------------------ bounds
MaxEpisodes == 2            \* episodes the unbounded loop of learn is followed for
EpisodeMaxLengths == {1, 2} \* values of config["episode_max_length"], the step cap
Observations == {1, 2}      \* what env.reset / env.step may return as the state
Rewards == {0, 1}           \* what env.step may return as the reward
BatchSizes == {1, 2}        \* values of config["batch_size"]
DrawFrequencies == {1, 2}   \* values of config["draw_frequency"]

\* --------------------------------------------------------------- constants
Scale == 1000               \* fixed-point unit: the real 1.0
NaN == 1000000000           \* numpy's nan (no real of the model is that large)
nO == 1                     \* observation dimension
nA == 2                     \* self.nA, the number of actions
n_hidden_units == 1         \* config["n_hidden_units"]
GammaPct == 99              \* config["gamma"] = 0.99, in hundredths
LearningRatePct == 5        \* config["learning_rate"] = 0.05, in hundredths
DecayRatePct == 99          \* config["decay_rate"] = 0.99, in hundredths
Epsilon == 1                \* the 1e-5 of the update: the smallest positive fixed-point value

\* ------------------------------------------------------------------ state
VARIABLES
    pc,                     \* where the process is: a line of learn / get_trajectory
    batch_size, draw_frequency, episode_max_length,   \* self.config
    w1, w2,                                     \* the weights (build_network)
    gradient1, gradient2, rmsprop1, rmsprop2,   \* locals of learn
    iteration, episode_nr, trajectory,
    state, states, actions, rewards, episode_probabilities, x1s,  \* locals of get_trajectory
    envLog,                 \* the calls made on env, in order
    reporterLog,            \* the calls made on the Reporter, in order
    raised,                 \* what stopped the process, "" while it runs
    raisedAt,               \* pc when it was raised
    committed,              \* weights and caches when the last batch update completed,
                            \* the episode_nr it completed at, and how many have completed
    staged,                 \* weights and caches the batch update in progress is to produce
    epGrads,                \* per-episode gradients added since the accumulator was zeroed
    arg, result             \* arguments and result of a function applied on its own

vars == <<pc, batch_size, draw_frequency, episode_max_length, w1, w2, gradient1, gradient2, rmsprop1,
          rmsprop2, iteration, episode_nr, trajectory, state, states,
          actions, rewards, episode_probabilities, x1s, envLog, reporterLog, raised,
          raisedAt, committed, staged, epGrads, arg, result>>

cfgVars == <<batch_size, draw_frequency, episode_max_length, arg, result>>

\* ------------------------------------------------------------- arithmetic
Abs(x) == IF x < 0 THEN -x ELSE x

\* a / b truncated toward zero, b > 0
Quot(a, b) == IF a >= 0 THEN a \div b ELSE -((-a) \div b)

Add(a, b) == IF a = NaN \/ b = NaN THEN NaN ELSE a + b

Sub(a, b) == IF a = NaN \/ b = NaN THEN NaN ELSE a - b

\* product of an integer and a fixed-point number (or of two integers)
IMul(a, b) == IF a = NaN \/ b = NaN THEN NaN ELSE a * b

\* product of two fixed-point numbers
FMul(a, b) == IF a = NaN \/ b = NaN THEN NaN ELSE Quot(a * b, Scale)

\* quotient of two fixed-point numbers; 0/0 is nan (x/0, x # 0, does not
\* arise: every divisor of the program is a sum or a root of non-negatives
\* that is zero only when the dividend is)
FDiv(a, b) == IF a = NaN \/ b = NaN \/ b = 0 THEN NaN ELSE Quot(a * Scale, b)

RECURSIVE IsqrtBin(_, _, _)
IsqrtBin(n, lo, hi) ==
    IF lo >= hi THEN lo
    ELSE LET mid == (lo + hi + 1) \div 2
         IN  IF mid * mid <= n THEN IsqrtBin(n, mid, hi) ELSE IsqrtBin(n, lo, mid - 1)

\* np.sqrt on a non-negative number kept at Scale^2: the result is at Scale
Sqrt(n) == IF n = NaN THEN NaN ELSE IsqrtBin(n, 0, 40000)

RECURSIVE SumSeq(_)
SumSeq(s) == IF s = <<>> THEN 0 ELSE Add(Head(s), SumSeq(Tail(s)))

\* ---------------------------------------------------------------- matrices
Zeros(r, c) == [i \in 1..r |-> [j \in 1..c |-> 0]]

\* gradient = change instead of gradient += change
MatAddAssign(a, b) == b

MatAdd(a, b) == [i \in DOMAIN a |-> [j \in DOMAIN a[i] |-> Add(a[i][j], b[i][j])]]

HasNaN(m) == \E i \in DOMAIN m : \E j \in DOMAIN m[i] : m[i][j] = NaN

\* sum over t of a[t][i] * b[t][j], the (i, j) entry of np.dot(a.T, b), for
\* two fixed-point matrices
DotT(a, b, i, j) == SumSeq([t \in 1..Len(a) |-> FMul(a[t][i], b[t][j])])

\* the same for an integer matrix a (the stacked observations)
DotTInt(a, b, i, j) == SumSeq([t \in 1..Len(a) |-> IMul(a[t][i], b[t][j])])

\* ------------------------------------------------------- pure functions
\* sigmoid (line 27-28).  exp is not available in fixed point: the logistic
\* curve is replaced by 1/2 + x / (2 (1 + |x|)), which like it is strictly
\* between 0 and 1, increasing, 1/2 at 0 and symmetric; nan maps to nan.
sigmoid(x) ==
    IF x = NaN THEN NaN
    ELSE (Scale \div 2) + Quot(x * Scale, 2 * (Scale + Abs(x)))

\* probs = output / np.sum(output) (line 33)
Normalize(output) ==
    LET total == SumSeq(output)
    IN  [a \in DOMAIN output |-> FDiv(output[a], total)]

\* np.random.choice(n_actions, p=probs) (line 34): the actions it may return;
\* it raises ValueError when probs holds a nan, modelled as the empty set
ChoiceSet(probs) ==
    IF \E a \in DOMAIN probs : probs[a] = NaN THEN {}
    ELSE {a \in 0..(nA - 1) : probs[a + 1] > 0}

\* KPLearner.forward_step (lines 66-70)
forward_step(st) ==
    LET pre == [j \in 1..n_hidden_units |->
                   SumSeq([i \in 1..nO |-> IMul(st[i], w1[i][j])])]
        x1  == [j \in 1..n_hidden_units |-> IF pre[j] < 0 THEN 0 ELSE pre[j]]
        out == [a \in 1..nA |->
                   sigmoid(SumSeq([j \in 1..n_hidden_units |-> FMul(x1[j], w2[j][a])]))]
    IN  [x1 |-> x1, output |-> out]

\* the gate lets the activation through instead of the back-propagated error
ReluGateActivation(x, d) == IF x <= 0 THEN 0 ELSE x

\* dh[x1 <= 0] = 0 (line 76), on one entry; nan <= 0 is false
ReluGate(x, d) == IF x <= 0 THEN 0 ELSE d

\* KPLearner.backward_step (lines 72-78)
backward_step(x0, x1, feedback) ==
    LET T == Len(feedback)
        dw2 == [j \in 1..n_hidden_units |-> [a \in 1..nA |->
                   DotT(x1, feedback, j, a)]]
        dh0 == [t \in 1..T |-> [j \in 1..n_hidden_units |->
                   SumSeq([a \in 1..nA |-> FMul(feedback[t][a], w2[j][a])])]]
        dh  == [t \in 1..T |-> [j \in 1..n_hidden_units |-> ReluGate(x1[t][j], dh0[t][j])]]
        dw1 == [i \in 1..nO |-> [j \in 1..n_hidden_units |->
                   DotTInt(x0, dh, i, j)]]
    IN  [change_w1 |-> dw1, change_w2 |-> dw2]

\* utils.discount_rewards: G_t = r_t + gamma * G_{t+1}, G_T = 0
RECURSIVE DiscountFrom(_, _)
DiscountFrom(r, t) ==
    IF t > Len(r) THEN 0
    ELSE r[t] * Scale + Quot(GammaPct * DiscountFrom(r, t + 1), 100)

discount_rewards(r) == [t \in 1..Len(r) |-> DiscountFrom(r, t)]

\* np.std(d) of a centred vector d (line 141): sqrt(mean(d^2))
Std(d) == Sqrt(Quot(SumSeq([t \in 1..Len(d) |-> IMul(d[t], d[t])]), Len(d)))

\* lines 140-141: d -= np.mean(d); d /= np.std(d).  No guard: a zero standard
\* deviation divides 0 by 0
Standardize(d) ==
    LET mean == Quot(SumSeq(d), Len(d))
        c    == [t \in 1..Len(d) |-> Sub(d[t], mean)]
        sd   == Std(c)
    IN  [t \in 1..Len(d) |-> FDiv(c[t], sd)]

\* lines 132-142: the error signal of a trajectory
Epdlogp(tr) ==
    LET ret == Standardize(discount_rewards(tr.reward))
    IN  [t \in 1..Len(tr.reward) |-> [a \in 1..nA |->
            FMul(Sub(IF tr.action[t] = a - 1 THEN Scale ELSE 0, tr.prob[t][a]), ret[t])]]

\* line 151/152: decay_rate * rmsprop + (1 - decay_rate) * gradient**2
RmsUpdate(rms, g) ==
    [i \in DOMAIN rms |-> [j \in DOMAIN rms[i] |->
        IF rms[i][j] = NaN \/ g[i][j] = NaN THEN NaN
        ELSE Quot(DecayRatePct * rms[i][j] + (100 - DecayRatePct) * g[i][j] * g[i][j], 100)]]

\* line 153/154: w += learning_rate * gradient / (np.sqrt(rmsprop) + 1e-5)
WeightUpdate(w, rms, g) ==
    [i \in DOMAIN w |-> [j \in DOMAIN w[i] |->
        IF w[i][j] = NaN \/ rms[i][j] = NaN \/ g[i][j] = NaN THEN NaN
        ELSE w[i][j] + Quot(LearningRatePct * g[i][j] * Scale,
                            100 * (Sqrt(rms[i][j]) + Epsilon))]]

\* ------------------------------------------------------------ environment
\* the states env.reset and env.step may return: vectors of nO observations
ObsVectors == [1..nO -> Observations]

\* build_network (lines 57-59): weights np.random.randn may draw.  A negative
\* w1 leaves the hidden unit inactive on every (positive) observation.
InitWeights == {-(Scale \div 2), Scale \div 2}

InitW2 == [a \in 1..nA |-> IF a % 2 = 1 THEN Scale \div 2 ELSE -(Scale \div 2)]

\* get_trajectory's parameter render as learn passes it (line 127): the
\* positional argument is config["episode_max_length"], true when non-zero
render == episode_max_length # 0

Current == [w1 |-> w1, w2 |-> w2, rmsprop1 |-> rmsprop1, rmsprop2 |-> rmsprop2]

LastCommitted == [w1 |-> committed.w1, w2 |-> committed.w2,
                  rmsprop1 |-> committed.rmsprop1, rmsprop2 |-> committed.rmsprop2]

NoTrajectory == [reward |-> <<>>, state |-> <<>>, action |-> <<>>, prob |-> <<>>, x1 |-> <<>>]

\* ------------------------------------------------------------------ Init
\* KPLearner.__init__ and the head of learn (lines 113-125)
Init ==
    /\ pc = "loop"
    /\ batch_size \in BatchSizes
    /\ draw_frequency \in DrawFrequencies
    /\ episode_max_length \in EpisodeMaxLengths
    /\ w1 \in [1..nO -> [1..n_hidden_units -> InitWeights]]
    /\ w2 = [j \in 1..n_hidden_units |-> InitW2]
    /\ gradient1 = Zeros(nO, n_hidden_units)
    /\ gradient2 = Zeros(n_hidden_units, nA)
    /\ rmsprop1 = Zeros(nO, n_hidden_units)
    /\ rmsprop2 = Zeros(n_hidden_units, nA)
    /\ iteration = 0
    /\ episode_nr = 0
    /\ trajectory = NoTrajectory
    /\ state = <<>>
    /\ states = <<>>
    /\ actions = <<>>
    /\ rewards = <<>>
    /\ episode_probabilities = <<>>
    /\ x1s = <<>>
    /\ envLog = <<>>
    /\ reporterLog = <<>>
    /\ raised = ""
    /\ raisedAt = ""
    /\ committed = [w1 |-> w1, w2 |-> w2, rmsprop1 |-> rmsprop1, rmsprop2 |-> rmsprop2,
                    episode_nr |-> 0, updates |-> 0]
    /\ staged = Current
    /\ epGrads = <<>>
    /\ arg = <<>>
    /\ result = <<>>

learnVars == <<gradient1, gradient2, rmsprop1, rmsprop2, iteration, episode_nr,
               reporterLog, committed, staged, epGrads>>

collectVars == <<state, states, actions, rewards, episode_probabilities, x1s>>

\* ------------------------------------------------------- get_trajectory
\* line 127 calls get_trajectory; lines 86-92: env.reset() and the empty lists
Reset ==
    /\ pc = "loop"
    /\ episode_nr < MaxEpisodes
    /\ \E s \in ObsVectors :
          /\ state' = s
          /\ envLog' = <<[op |-> "reset", state |-> s]>>
    /\ states' = <<>>
    /\ actions' = <<>>
    /\ rewards' = <<>>
    /\ episode_probabilities' = <<>>
    /\ x1s' = <<>>
    /\ pc' = "for"
    /\ UNCHANGED <<cfgVars, w1, w2, trajectory, raised, raisedAt>>
    /\ UNCHANGED learnVars

\* the cap off by one: range(episode_max_length + 1)
ForHasNextOffByOne(n) == n <= episode_max_length

\* range(config["episode_max_length"]) (line 93) has another item
ForHasNext(n) == n < episode_max_length

\* where the loop body goes after env.step (lines 101-104)
AfterStep(done) == IF done THEN "ret" ELSE IF render THEN "render" ELSE "for"

\* states.append(state) placed after the env.step call
RecordedAfterStep(before, after) == after

\* what states.append records (line 96), given the state the action was
\* chosen on and the state env.step returned
Recorded(before, after) == before

\* one pass of the for loop up to the test of done (lines 93-102)
Step ==
    /\ pc = "for"
    /\ ForHasNext(Len(states))
    /\ LET f     == forward_step(state)
           probs == Normalize(f.output)
       IN  IF ChoiceSet(probs) = {}
           THEN \* np.random.choice raises ValueError: nothing catches it
                /\ raised' = "ValueError"
                /\ raisedAt' = pc
                /\ pc' = "exit"
                /\ UNCHANGED <<envLog, collectVars>>
           ELSE \E action \in ChoiceSet(probs), ns \in ObsVectors,
                   rew \in Rewards, done \in BOOLEAN :
                /\ x1s' = Append(x1s, f.x1)
                /\ states' = Append(states, Recorded(state, ns))
                /\ state' = ns
                /\ envLog' = Append(envLog, [op |-> "step", action |-> action,
                                             state |-> ns, rew |-> rew, done |-> done])
                /\ actions' = Append(actions, action)
                /\ rewards' = Append(rewards, rew)
                /\ episode_probabilities' = Append(episode_probabilities, probs)
                /\ pc' = AfterStep(done)
                /\ UNCHANGED <<raised, raisedAt>>
    /\ UNCHANGED <<cfgVars, w1, w2, trajectory>>
    /\ UNCHANGED learnVars

\* env.render() (line 104): it returns, or it raises and nothing catches it
Render ==
    /\ pc = "render"
    /\ \/ /\ envLog' = Append(envLog, [op |-> "render", ok |-> TRUE])
          /\ pc' = "for"
          /\ UNCHANGED <<raised, raisedAt>>
       \/ /\ envLog' = Append(envLog, [op |-> "render", ok |-> FALSE])
          /\ raised' = "RenderError"
          /\ raisedAt' = pc
          /\ pc' = "exit"
    /\ UNCHANGED <<cfgVars, w1, w2, trajectory>>
    /\ UNCHANGED collectVars
    /\ UNCHANGED learnVars

\* the range is exhausted (line 93): the loop ends without break
ForEnd ==
    /\ pc = "for"
    /\ ~ForHasNext(Len(states))
    /\ pc' = "ret"
    /\ UNCHANGED <<cfgVars, w1, w2, trajectory, envLog, raised, raisedAt>>
    /\ UNCHANGED collectVars
    /\ UNCHANGED learnVars

\* return of the dictionary (lines 105-110); the frame's locals are gone
Return ==
    /\ pc = "ret"
    /\ trajectory' = [reward |-> rewards, state |-> states, action |-> actions,
                      prob |-> episode_probabilities, x1 |-> x1s]
    /\ state' = <<>>
    /\ states' = <<>>
    /\ actions' = <<>>
    /\ rewards' = <<>>
    /\ episode_probabilities' = <<>>
    /\ x1s' = <<>>
    /\ pc' = "episode"
    /\ UNCHANGED <<cfgVars, w1, w2, envLog, raised, raisedAt>>
    /\ UNCHANGED learnVars

\* ------------------------------------------------------------------ learn
\* the batch boundary tested one episode early
BatchDoneEarly(n) == (n + 1) % batch_size = 0

\* episode_nr % config["batch_size"] == 0 (line 149)
BatchDone(n) == n % batch_size = 0

\* the draw interval counted in iterations instead of episodes
DrawDueByIteration(n) == iteration % draw_frequency = 0

\* episode_nr % config["draw_frequency"] == 0 (line 159)
DrawDue(n) == n % draw_frequency = 0

\* gradient1 = np.zeros_like(self.w1) (lines 155-156)
ZerosLike(m) == [i \in DOMAIN m |-> [j \in DOMAIN m[i] |-> 0]]

\* the body of the while loop after get_trajectory returned, up to the test
\* of the batch boundary (lines 129-149).  Nothing reads the trajectory (or the
\* record of the episode's calls on env) after line 144: they are dropped here.
\* The statistics of lines 123-125, 129-130 and 158 (episode_rewards,
\* episode_lengths, mean_rewards) are arguments of the Reporter's calls only
\* and are not part of the model.
Episode ==
    /\ pc = "episode"
    /\ LET e  == Epdlogp(trajectory)
           ch == backward_step(trajectory.state, trajectory.x1, e)
       IN  /\ episode_nr' = episode_nr + 1
           /\ gradient1' = MatAdd(gradient1, ch.change_w1)
           /\ gradient2' = MatAdd(gradient2, ch.change_w2)
           /\ epGrads' = Append(epGrads, ch)
    /\ trajectory' = NoTrajectory
    /\ envLog' = <<>>
    /\ pc' = IF BatchDone(episode_nr') THEN "l150" ELSE "loop"
    /\ UNCHANGED <<cfgVars, w1, w2, rmsprop1, rmsprop2, iteration, reporterLog, raised,
                   raisedAt, committed, staged>>
    /\ UNCHANGED collectVars

\* iteration += 1 (line 150)
L150 ==
    /\ pc = "l150"
    /\ iteration' = iteration + 1
    /\ staged' = [rmsprop1 |-> RmsUpdate(rmsprop1, gradient1),
                  rmsprop2 |-> RmsUpdate(rmsprop2, gradient2),
                  w1 |-> WeightUpdate(w1, RmsUpdate(rmsprop1, gradient1), gradient1),
                  w2 |-> WeightUpdate(w2, RmsUpdate(rmsprop2, gradient2), gradient2)]
    /\ pc' = "l151"
    /\ UNCHANGED <<cfgVars, w1, w2, gradient1, gradient2, rmsprop1, rmsprop2, episode_nr, trajectory,
                   envLog, reporterLog, raised, raisedAt,
                   committed, epGrads>>
    /\ UNCHANGED collectVars

\* rmsprop1 = ... (line 151)
L151 ==
    /\ pc = "l151"
    /\ rmsprop1' = RmsUpdate(rmsprop1, gradient1)
    /\ pc' = "l152"
    /\ UNCHANGED <<cfgVars, w1, w2, gradient1, gradient2, rmsprop2, iteration, episode_nr, trajectory,
                   envLog, reporterLog, raised, raisedAt,
                   committed, staged, epGrads>>
    /\ UNCHANGED collectVars

\* rmsprop2 = ... (line 152)
L152 ==
    /\ pc = "l152"
    /\ rmsprop2' = RmsUpdate(rmsprop2, gradient2)
    /\ pc' = "l153"
    /\ UNCHANGED <<cfgVars, w1, w2, gradient1, gradient2, rmsprop1, iteration, episode_nr, trajectory,
                   envLog, reporterLog, raised, raisedAt,
                   committed, staged, epGrads>>
    /\ UNCHANGED collectVars

\* self.w1 += ... (line 153)
L153 ==
    /\ pc = "l153"
    /\ w1' = WeightUpdate(w1, rmsprop1, gradient1)
    /\ pc' = "l154"
    /\ UNCHANGED <<cfgVars, w2, gradient1, gradient2, rmsprop1, rmsprop2, iteration,
                   episode_nr, trajectory,
                   envLog, reporterLog, raised, raisedAt,
                   committed, staged, epGrads>>
    /\ UNCHANGED collectVars

\* self.w2 += ... (line 154): the batch update is complete
L154 ==
    /\ pc = "l154"
    /\ w2' = WeightUpdate(w2, rmsprop2, gradient2)
    /\ committed' = [w1 |-> w1, w2 |-> w2', rmsprop1 |-> rmsprop1, rmsprop2 |-> rmsprop2,
                     episode_nr |-> episode_nr, updates |-> committed.updates + 1]
    /\ pc' = "l155"
    /\ UNCHANGED <<cfgVars, w1, gradient1, gradient2, rmsprop1, rmsprop2, iteration,
                   episode_nr, trajectory,
                   envLog, reporterLog, raised, raisedAt,
                   staged, epGrads>>
    /\ UNCHANGED collectVars

\* gradient1, gradient2 = zeros (lines 155-156)
L155 ==
    /\ pc = "l155"
    /\ gradient1' = ZerosLike(w1)
    /\ gradient2' = ZerosLike(w2)
    /\ epGrads' = <<>>
    /\ pc' = "l157"
    /\ UNCHANGED <<cfgVars, w1, w2, rmsprop1, rmsprop2, iteration, episode_nr, trajectory,
                   envLog, reporterLog, raised, raisedAt,
                   committed, staged>>
    /\ UNCHANGED collectVars

\* the calls on the Reporter (lines 157-160)
Report ==
    /\ pc = "l157"
    /\ reporterLog' = reporterLog
            \o <<[op |-> "print_iteration_stats", iteration |-> iteration,
                  episode_nr |-> episode_nr]>>
            \o (IF DrawDue(episode_nr)
                THEN <<[op |-> "draw_rewards", iteration |-> iteration,
                        episode_nr |-> episode_nr]>>
                ELSE <<>>)
    /\ pc' = "loop"
    /\ UNCHANGED <<cfgVars, w1, w2, gradient1, gradient2, rmsprop1, rmsprop2, iteration,
                   episode_nr, trajectory,
                   envLog, raised, raisedAt, committed, staged,
                   epGrads>>
    /\ UNCHANGED collectVars

\* ------------------------------------------------------------------- main
\* KeyboardInterrupt, delivered between any two steps of learn; main catches
\* it and returns (lines 180-184)
Interrupt ==
    /\ pc # "exit"
    /\ raised' = "KeyboardInterrupt"
    /\ raisedAt' = pc
    /\ pc' = "exit"
    /\ UNCHANGED <<cfgVars, w1, w2, trajectory, envLog>>
    /\ UNCHANGED collectVars
    /\ UNCHANGED learnVars

Next ==
    \/ Reset
    \/ Step
    \/ Render
    \/ ForEnd
    \/ Return
    \/ Episode
    \/ L150
    \/ L151
    \/ L152
    \/ L153
    \/ L154
    \/ L155
    \/ Report
    \/ Interrupt

Spec == Init /\ [][Next]_vars

\* --------------------------------------------- backward_step on its own
\* hidden activations and error signals backward_step is applied to, over
\* trajectories of 1 to episode_max_length steps
HiddenValues == {-Scale, 0, Scale}

FeedbackValues == {0, Scale}

InitBackward ==
    /\ pc = "call"
    /\ batch_size = 1
    /\ draw_frequency = 1
    /\ episode_max_length \in EpisodeMaxLengths
    /\ w1 = [i \in 1..nO |-> [j \in 1..n_hidden_units |-> Scale \div 2]]
    /\ w2 \in [1..n_hidden_units -> [1..nA -> InitWeights]]
    /\ gradient1 = Zeros(nO, n_hidden_units)
    /\ gradient2 = Zeros(n_hidden_units, nA)
    /\ rmsprop1 = Zeros(nO, n_hidden_units)
    /\ rmsprop2 = Zeros(n_hidden_units, nA)
    /\ iteration = 0
    /\ episode_nr = 0
    /\ trajectory = NoTrajectory
    /\ state = <<>>
    /\ states = <<>>
    /\ actions = <<>>
    /\ rewards = <<>>
    /\ episode_probabilities = <<>>
    /\ x1s = <<>>
    /\ envLog = <<>>
    /\ reporterLog = <<>>
    /\ raised = ""
    /\ raisedAt = ""
    /\ committed = [w1 |-> w1, w2 |-> w2, rmsprop1 |-> rmsprop1, rmsprop2 |-> rmsprop2,
                    episode_nr |-> 0, updates |-> 0]
    /\ staged = Current
    /\ epGrads = <<>>
    /\ \E T \in 1..episode_max_length :
          arg \in [x0 : [1..T -> ObsVectors],
                   x1 : [1..T -> [1..n_hidden_units -> HiddenValues]],
                   feedback : [1..T -> [1..nA -> FeedbackValues]]]
    /\ result = <<>>

\* change_w1, change_w2 = self.backward_step(x0, x1, feedback)
CallBackward ==
    /\ pc = "call"
    /\ result' = backward_step(arg.x0, arg.x1, arg.feedback)
    /\ pc' = "called"
    /\ UNCHANGED <<batch_size, draw_frequency, episode_max_length, arg, w1, w2,
                   trajectory, envLog, raised, raisedAt>>
    /\ UNCHANGED collectVars
    /\ UNCHANGED learnVars

NextBackward == CallBackward

SpecBackward == InitBackward /\ [][NextBackward]_vars

\* ================================================================ claims
\* where the process is, or was when it stopped
Where == IF pc = "exit" THEN raisedAt ELSE pc

CollectPcs == {"loop", "for", "render", "ret", "episode"}

IsStep(e) == e.op = "step"

StepsOf(log) == SelectSeq(log, IsStep)

AllZero(m) == \A i \in DOMAIN m : \A j \in DOMAIN m[i] : m[i][j] = 0

\* C1: outside the end-of-batch update (trajectory collection, the episode
\* body, and an interruption or error arriving there) the weights and both
\* RMSProp caches equal their values after the last completed batch update
\* (the initial ones if there was none), and updates complete only when the
\* episode counter is a multiple of batch_size.
C1_WeightsChangeOnlyAtBatchUpdate ==
    Where \in CollectPcs =>
        /\ Current = LastCommitted
        /\ committed.episode_nr % batch_size = 0

\* C1 witness: interrupted in the middle of collecting an episode, after a
\* batch update that moved the weights
C1_Witness ==
    /\ pc = "exit"
    /\ raised = "KeyboardInterrupt"
    /\ raisedAt = "for"
    /\ Len(states) = 1
    /\ committed.updates = 1
    /\ w1[1][1] \notin InitWeights

\* the batch update in progress (or the last one) produces finite values only
StagedFinite ==
    /\ ~HasNaN(staged.w1)
    /\ ~HasNaN(staged.w2)
    /\ ~HasNaN(staged.rmsprop1)
    /\ ~HasNaN(staged.rmsprop2)

\* C2: after a KeyboardInterrupt the four of rmsprop1, rmsprop2, w1, w2 hold
\* either all their values from before the batch update or all their values
\* from after it (stated for the updates whose values are all finite).
C2_InterruptLeavesUpdateWhole ==
    (pc = "exit" /\ raised = "KeyboardInterrupt" /\ StagedFinite) =>
        (Current = LastCommitted \/ Current = staged)

RECURSIVE SumChanges1(_)
SumChanges1(s) ==
    IF s = <<>> THEN Zeros(nO, n_hidden_units)
    ELSE LET r == SumChanges1(Tail(s))
         IN  [i \in 1..nO |-> [j \in 1..n_hidden_units |->
                 Add(Head(s).change_w1[i][j], r[i][j])]]

RECURSIVE SumChanges2(_)
SumChanges2(s) ==
    IF s = <<>> THEN Zeros(n_hidden_units, nA)
    ELSE LET r == SumChanges2(Tail(s))
         IN  [j \in 1..n_hidden_units |-> [a \in 1..nA |->
                 Add(Head(s).change_w2[j][a], r[j][a])]]

\* C3: the accumulator is the sum of the per-episode gradients added since it
\* was last zeroed, one per episode; at the update step these are exactly
\* batch_size episodes, and right after the update step it is all zeros.
C3_AccumulatorIsBatchSum ==
    /\ gradient1 = SumChanges1(epGrads)
    /\ gradient2 = SumChanges2(epGrads)
    /\ Where \in CollectPcs => Len(epGrads) = episode_nr % batch_size
    /\ Where \in {"l150", "l151", "l152", "l153", "l154", "l155"} =>
           Len(epGrads) = batch_size
    /\ Where = "l157" => (AllZero(gradient1) /\ AllZero(gradient2) /\ epGrads = <<>>)

\* C3 witness: the update step of a batch of two episodes, each of which
\* contributed a non-zero finite gradient
C3_Witness ==
    /\ pc = "l150"
    /\ batch_size = 2
    /\ Len(epGrads) = 2
    /\ \A k \in 1..2 : ~HasNaN(epGrads[k].change_w2) /\ ~AllZero(epGrads[k].change_w2)

LoggedIterations ==
    {reporterLog[i].iteration : i \in {n \in DOMAIN reporterLog :
                                          reporterLog[n].op = "print_iteration_stats"}}

DrawnAt(k) ==
    \E i \in DOMAIN reporterLog :
        reporterLog[i].op = "draw_rewards" /\ reporterLog[i].iteration = k

\* C4 as claimed: a redraw is requested at the batch update of iteration k
\* if and only if k mod draw_frequency = 0.
C4_DrawEveryNIterations ==
    \A k \in LoggedIterations : DrawnAt(k) <=> (k % draw_frequency = 0)

\* C4 amended: a redraw is requested at the batch update of iteration k if
\* and only if the episode counter there, k * batch_size, is a multiple of
\* draw_frequency.
C4_DrawEveryNEpisodes ==
    \A k \in LoggedIterations : DrawnAt(k) <=> ((k * batch_size) % draw_frequency = 0)

\* C4 witness: a redraw at an iteration that is no multiple of draw_frequency
C4_Witness ==
    \E k \in LoggedIterations : DrawnAt(k) /\ k % draw_frequency # 0

\* C5: a returned trajectory has its five sequences of one length L, which is
\* the number of env.step calls made, at most episode_max_length; no step
\* before the last reported done, and the last one did unless L is the cap.
\* During collection too, no step follows one that reported done.
C5_TrajectoryLength ==
    LET st == StepsOf(envLog)
        L  == Len(trajectory.reward)
    IN  /\ \A t \in 1..(Len(st) - 1) : ~st[t].done
        /\ Len(st) <= episode_max_length
        /\ pc = "episode" =>
              /\ Len(trajectory.state) = L
              /\ Len(trajectory.action) = L
              /\ Len(trajectory.prob) = L
              /\ Len(trajectory.x1) = L
              /\ L = Len(st)
              /\ L >= 1
              /\ st[L].done \/ L = episode_max_length

\* C5 witness: a trajectory returned at the cap, whose last step did not
\* report done
C5_Witness ==
    /\ pc = "episode"
    /\ Len(trajectory.reward) = episode_max_length
    /\ ~StepsOf(envLog)[episode_max_length].done

\* C6: no nan reaches the gradient accumulator, the weights or the caches.
C6_NoNaNPropagates ==
    /\ ~HasNaN(gradient1)
    /\ ~HasNaN(gradient2)
    /\ ~HasNaN(w1)
    /\ ~HasNaN(w2)
    /\ ~HasNaN(rmsprop1)
    /\ ~HasNaN(rmsprop2)

RenderFailed ==
    \E i \in DOMAIN envLog : envLog[i].op = "render" /\ ~envLog[i].ok

\* C7: a render call that raises does not abort collection: the process
\* goes on from there.
C7_RenderFailureTolerated == RenderFailed => pc # "exit"

\* C8: backward_step on an all-zero feedback returns all-zero change_w1 and
\* change_w2.
C8_ZeroFeedbackZeroGradient ==
    (pc = "called" /\ AllZero(arg.feedback)) =>
        (AllZero(result.change_w1) /\ AllZero(result.change_w2))

\* C8 witness: backward_step was applied to an all-zero feedback over the
\* longest trajectory, with the hidden unit active at every step
C8_Witness ==
    /\ pc = "called"
    /\ AllZero(arg.feedback)
    /\ Len(arg.feedback) = episode_max_length
    /\ \A t \in DOMAIN arg.x1 : arg.x1[t][1] > 0

\* C9: in a returned trajectory, state[t] is the state the environment
\* returned just before step t (reset for the first), x1[t] and prob[t] are
\* the forward pass on state[t], action[t] is the action given to step t and
\* could be drawn from prob[t], reward[t] is what step t returned; the state
\* the last step returned is not recorded.
C9_TrajectoryAligned ==
    pc = "episode" =>
        LET st == StepsOf(envLog)
            tr == trajectory
        IN  /\ Len(tr.state) = Len(st)
            /\ \A t \in 1..Len(tr.state) :
                  /\ tr.state[t] = IF t = 1 THEN envLog[1].state ELSE st[t - 1].state
                  /\ tr.x1[t] = forward_step(tr.state[t]).x1
                  /\ tr.prob[t] = Normalize(forward_step(tr.state[t]).output)
                  /\ tr.action[t] = st[t].action
                  /\ tr.action[t] \in ChoiceSet(tr.prob[t])
                  /\ tr.reward[t] = st[t].rew

\* C9 witness: a two-step trajectory over three different successive states
C9_Witness ==
    /\ pc = "episode"
    /\ Len(trajectory.state) = 2
    /\ trajectory.state[1] # trajectory.state[2]
    /\ StepsOf(envLog)[2].state # trajectory.state[2]
    /\ trajectory.prob[1] # trajectory.prob[2]

C10_AtLoopHead ==
    Where = "loop" =>
        /\ iteration = episode_nr \div batch_size
        /\ committed.updates = iteration

C10_Step ==
    /\ iteration' >= iteration
    /\ episode_nr' >= episode_nr
    /\ episode_nr' # episode_nr => (pc = "episode" /\ episode_nr' = episode_nr + 1)
    /\ pc = "episode" => episode_nr' # episode_nr \/ pc' = "exit"
    /\ rmsprop1' # rmsprop1 => pc = "l151"
    /\ rmsprop2' # rmsprop2 => pc = "l152"

\* C10: at the head of the training loop the iteration counter is
\* floor(episode_nr / batch_size) and is the number of completed weight and
\* cache updates; the counters never decrease, episode_nr grows by one per
\* episode, and the caches change only in their one assignment of the update.
C10_Counters == []C10_AtLoopHead /\ [][C10_Step]_vars

\* C10 witness: the loop head after the update of a batch of two episodes
C10_Witness ==
    /\ pc = "loop"
    /\ batch_size = 2
    /\ episode_nr = 2
    /\ iteration = 1

====
